---- MODULE Spec2Model ----
(***************************************************************************)
(* Browser-session workflows of the xiaohongshu skills:                    *)
(*   xiaohongshu-creator/scripts/publish.py  (publish, status)             *)
(*   xiaohongshu-search/scripts/search.py    (search / harvest)            *)
(* Time is counted in whole seconds.  Strings that the code inspects       *)
(* character by character are sequences of one-character strings.          *)
(***************************************************************************)
EXTENDS Integers, Sequences, FiniteSets, TLC

\* ------------------------------------------------------------------ bounds
\* longest time one context.cookies() call is taken to need, in seconds
MaxCookieReadSecs == 1
\* most image elements the DOM query returns
MaxImgs == 2
\* most title elements the DOM query returns
MaxTitles == 1
\* largest --count value tried (the smallest is -1)
MaxCount == 2

\* ------------------------------------------------------- program constants
\* publish.py: for _ in range(100)
PublishMaxPolls == 100
\* publish.py: await asyncio.sleep(3)
PublishPollInterval == 3
\* search.py: while time.time() - start_time < 300
SearchMaxWait == 300
\* search.py: await asyncio.sleep(2)
SearchPollInterval == 2
\* search.py: wait_for_selector(selector, timeout=2000)
SelectorTimeoutSecs == 2
\* search.py: for _ in range(5)
ScrollCycles == 5

Min(a, b) == IF a < b THEN a ELSE b
Max(a, b) == IF a > b THEN a ELSE b

\* =================================================== login state detectors

\* publish.py line 76: the cookie names that identify a session
KnownCookieNames == {"a1", "web_session", "webId", "gid"}

\* cookie names a browser profile may hold for the site
CookieNames == KnownCookieNames \cup {"xsecappid"}

\* What context.cookies(origin) gives: the names read, or a failed read.
CookieReads == [ok : BOOLEAN, names : SUBSET CookieNames]

\* the cookie reads the workflows' detector calls are tried on
WorkflowCookieReads ==
    {[ok |-> FALSE, names |-> {}], [ok |-> TRUE, names |-> {}],
     [ok |-> TRUE, names |-> {"xsecappid"}], [ok |-> TRUE, names |-> {"a1", "xsecappid"}]}

\* A mutant of _is_logged_in: any cookie at all counts as a login.
is_logged_in_any_cookie(read) ==
    IF ~read.ok THEN "raise"
    ELSE IF read.names # {} THEN "true" ELSE "false"

\* A mutant of _is_logged_in: "gid" is missing from the known names.
is_logged_in_three_names(read) ==
    IF ~read.ok THEN "raise"
    ELSE IF (read.names \cap {"a1", "web_session", "webId"}) # {} THEN "true"
    ELSE "false"

\* publish.py _is_logged_in(context): "true" / "false", or "raise" when the
\* cookie read fails (the function has no handler).
is_logged_in(read) ==
    IF ~read.ok THEN "raise"
    ELSE IF (read.names \cap KnownCookieNames) # {} THEN "true" ELSE "false"

\* search.py check_login: the 12 selectors tried, in order
selectors == << ".user.side-bar-component", "a[href*='/user/profile']",
                "[src*='sns-avatar']", "[class*='user']", ".avatar",
                "[class*='avatar']", "img[src*='avatar']", ".user-nickname",
                "text=creator-center", "text=business-cooperation",
                ".publish-btn", ".global-nav" >>

\* search.py line 76 (the four Chinese strings are written in English here):
\* 'logout', 'personal-homepage', 'creator-center', 'business-cooperation'
login_indicators == {"logout", "personal-homepage", "creator-center",
                     "business-cooperation", "sns-avatar", "/user/profile/"}

\* What one wait_for_selector call does: the element appears ("hit"), the
\* 2 s timeout expires ("timeout"), or the call fails at once ("error").
SelectorOutcomes == {"hit", "timeout", "error"}

\* The page as check_login sees it: one outcome per selector, and the
\* page.content() result: the fragments the html contains, or a failed read.
HtmlFragments == login_indicators \cup {"login-button"}

\* index of the first selector that resolves, 0 when none does
RECURSIVE FirstHit(_, _)
FirstHit(outs, i) ==
    IF i > Len(outs) THEN 0
    ELSE IF outs[i] = "hit" THEN i
    ELSE FirstHit(outs, i + 1)

\* A mutant of check_login: no outer handler, a failed page.content() raises.
check_login_unguarded(outs, html) ==
    IF FirstHit(outs, 1) > 0 THEN "true"
    ELSE IF ~html.ok THEN "raise"
    ELSE IF (html.fragments \cap login_indicators) # {} THEN "true"
    ELSE "false"

\* search.py check_login(page): selectors first, then the page content; a
\* failing selector wait is skipped, any other failure gives False.  No
\* cookie is read.
check_login(outs, html) ==
    IF FirstHit(outs, 1) > 0 THEN "true"
    ELSE IF ~html.ok THEN "false"
    ELSE IF (html.fragments \cap login_indicators) # {} THEN "true"
    ELSE "false"

\* seconds one check_login call spends in selector waits: every wait that
\* times out before the first hit costs the whole timeout
RECURSIVE TimeoutsBefore(_, _, _)
TimeoutsBefore(outs, i, stop) ==
    IF i > Len(outs) \/ i = stop THEN 0
    ELSE (IF outs[i] = "timeout" THEN 1 ELSE 0) + TimeoutsBefore(outs, i + 1, stop)

check_login_seconds(outs) ==
    SelectorTimeoutSecs * TimeoutsBefore(outs, 1, FirstHit(outs, 1))

\* Selector outcome vectors tried: selector i is the only one that appears
\* (i = 0: none), every other wait ends the same way.
SelectorRun(i, other) ==
    [j \in 1..Len(selectors) |-> IF j = i THEN "hit" ELSE other]

SelectorRuns ==
    {SelectorRun(i, other) : i \in 0..Len(selectors), other \in {"timeout", "error"}}

\* Page contents tried: a failed read, no fragment, or exactly one fragment.
HtmlReads ==
    {[ok |-> FALSE, fragments |-> {}], [ok |-> TRUE, fragments |-> {}]}
    \cup {[ok |-> TRUE, fragments |-> {f}] : f \in HtmlFragments}

\* ============================================================= the state
VARIABLES
    wf,            \* the command run: "publish", "status" or "search"
    pc,            \* position of the workflow
    title,         \* publish: the title argument
    count,         \* search: the --count argument
    save_dir,      \* search: TRUE when --save is given
    session,       \* the browser context: "none", "open" or "closed"
    profile,       \* user data directory launched against: "none", "edge", "chrome"
    channel,       \* channel passed to the launch: "", "msedge", "chrome"
    message,       \* operator-facing message printed by a failed acquisition
    env,           \* what the browser lookup found on the machine, {} outside it
    held,          \* the directory launched on was held by another browser instance
    launch_msg,    \* fragments of the launch error's lower-cased message, {} if none
    closes,        \* number of close() calls on the browser context
    result,        \* value the workflow coroutine returned (publish, status)
    exc,           \* exception propagating out of the workflow, "none" if none
    polls,         \* detector calls made by the login waiter
    negPolls,      \* those that returned False
    sleeps,        \* interval waits made by the login waiter
    elapsed,       \* seconds since the login waiter started its loop
    detectSecs,    \* of these, seconds spent inside detector calls
    cycleStart,    \* value of elapsed when the last poll cycle began
    waitDone,      \* login waiter: "none", "ok" or "timeout"
    loginDetected, \* a detector call of this run has returned True
    gotos,         \* navigations to the workflow's own url (publish surface / search url)
    tabClicked,    \* publish: the image/text tab was clicked
    titleSel,      \* publish: index of the title selector located, 0 if none
    bodySel,       \* publish: index of the body selector located, 0 if none
    titleOuts,     \* publish: how the wait for each title selector would end
    titleTried,    \* publish: title selectors waited for
    bodyOuts,      \* publish: how the wait for each body selector would end
    bodyTried,     \* publish: body selectors waited for
    buttons,       \* publish: number of controls matching the publish label
    submitIdx,     \* publish: index of publish_button among the matches, 0 if None
    submitLookup,  \* publish: "none", "wait_failed", "query_failed" or "ok"
    submitClicks,  \* publish: clicks on the submit control
    indicator,     \* publish: "none", "seen" or "missed"
    scrolls,       \* search: scroll-to-bottom cycles done
    img_elements,  \* search: sources of the image elements found, in DOM order
    results,       \* search: the harvested image urls
    title_elements,\* search: texts of the title elements found
    titles,        \* search: the harvested titles
    files,         \* search: files written
    printed,       \* structured objects printed on standard output
    output,        \* search: the last object printed
    exitCode,      \* process exit status, -1 while running
    dRead, dOuts, dHtml, dPub, dSrch   \* detector inputs and results

wfVars == << wf, pc, title, count, save_dir, session, profile, channel, message,
             env, held, launch_msg, closes, result, exc, polls, negPolls, sleeps,
             elapsed, detectSecs,
             cycleStart, waitDone, loginDetected, gotos, tabClicked, titleSel,
             bodySel, titleOuts, titleTried, bodyOuts, bodyTried, buttons, submitIdx,
             submitLookup, submitClicks, indicator, scrolls,
             img_elements, results, title_elements, titles, files, printed,
             output, exitCode >>
detVars == << dRead, dOuts, dHtml, dPub, dSrch >>
vars == << wfVars, detVars >>

\* ---------------------------------------------- detectors on their own
DetectInit ==
    /\ dRead \in {r \in CookieReads : r.ok \/ r.names = {}}
    /\ dOuts \in SelectorRuns
    /\ dHtml \in HtmlReads
    /\ dPub = "none"
    /\ dSrch = "none"

DetectIdle ==
    /\ dRead = [ok |-> TRUE, names |-> {}]
    /\ dOuts = SelectorRun(0, "timeout")
    /\ dHtml = [ok |-> TRUE, fragments |-> {}]
    /\ dPub = "none"
    /\ dSrch = "none"

\* publish.py: one call of _is_logged_in on the cookies dRead
DetectPublish ==
    /\ dPub = "none"
    /\ dPub' = is_logged_in(dRead)
    /\ UNCHANGED << dRead, dOuts, dHtml, dSrch, wfVars >>

\* search.py: one call of check_login on the page (dOuts, dHtml)
DetectSearch ==
    /\ dSrch = "none"
    /\ dSrch' = check_login(dOuts, dHtml)
    /\ UNCHANGED << dRead, dOuts, dHtml, dPub, wfVars >>

\* ===================================================== session acquisition
\* What exists on the machine: the environment's LOCALAPPDATA, the browser
\* executables at the places the code looks, and the user data directories.
Envs ==
    {e \in [local : BOOLEAN, edge86 : BOOLEAN, edgeProg : BOOLEAN, edgeData : BOOLEAN,
            chromeProg : BOOLEAN, chrome86 : BOOLEAN, chromeLocal : BOOLEAN,
            chromeData : BOOLEAN] :
        ~e.local => (~e.edgeData /\ ~e.chromeData /\ ~e.chromeLocal)}

\* publish.py _get_system_browser: Edge first, then Chrome
get_system_browser(e) ==
    IF (e.edge86 \/ e.edgeProg) /\ e.edgeData
    THEN [user_data_dir |-> "edge", channel |-> "msedge"]
    ELSE IF (e.chromeProg \/ e.chrome86 \/ e.chromeLocal) /\ e.chromeData
    THEN [user_data_dir |-> "chrome", channel |-> "chrome"]
    ELSE [user_data_dir |-> "none", channel |-> ""]

\* search.py get_default_chrome_user_data_dir: Chrome's directory first,
\* then Edge's; no executable is looked for
get_default_chrome_user_data_dir(e) ==
    IF ~e.local THEN "none"
    ELSE IF e.chromeData THEN "chrome"
    ELSE IF e.edgeData THEN "edge"
    ELSE "none"

\* How a launch ends: "ok", or an error whose lower-cased message holds the
\* given fragments.  A launch on a directory that another browser instance
\* holds (another invocation's, or the user's own browser) does not give a
\* session: it ends in one of these errors.
LaunchErrors == {{"already in use"}, {"winerror 32"}, {"lock"},
                 {"executable doesn't exist"}, {"blocked by policy", "lock"}}

\* A mutant of the test of line 65: "winerror 32" is not looked for.
lock_message_two_fragments(msg) == msg \cap {"already in use", "lock"} # {}

\* publish.py line 65: the messages treated as a locked profile
lock_message(msg) == msg \cap {"already in use", "winerror 32", "lock"} # {}

NoResult == [status |-> "none"]
NoOutput == [keyword |-> "", images |-> << >>, titles |-> << >>, count |-> 0]
Titles == {"Hello", "Note"}
CountValues == (-1)..MaxCount

Init ==
    /\ wf \in {"publish", "status", "search"}
    /\ pc = "launch"
    /\ title \in IF wf = "publish" THEN Titles ELSE {""}
    /\ count \in IF wf = "search" THEN CountValues ELSE {0}
    /\ save_dir \in IF wf = "search" THEN BOOLEAN ELSE {FALSE}
    /\ session = "none" /\ profile = "none" /\ channel = "" /\ message = ""
    /\ env = {} /\ held = FALSE /\ launch_msg = {}
    /\ closes = 0 /\ result = NoResult /\ exc = "none"
    /\ polls = 0 /\ negPolls = 0 /\ sleeps = 0 /\ elapsed = 0 /\ detectSecs = 0
    /\ cycleStart = 0 /\ waitDone = "none" /\ loginDetected = FALSE
    /\ gotos = 0 /\ tabClicked = FALSE /\ titleSel = 0 /\ bodySel = 0
    /\ titleOuts = << >> /\ titleTried = 0 /\ bodyOuts = << >> /\ bodyTried = 0
    /\ buttons = 0 /\ submitIdx = 0 /\ submitLookup = "none"
    /\ submitClicks = 0 /\ indicator = "none"
    /\ scrolls = 0 /\ img_elements = << >> /\ results = << >>
    /\ title_elements = << >> /\ titles = << >> /\ files = {}
    /\ printed = 0 /\ output = NoOutput /\ exitCode = -1
    /\ DetectIdle

acquireVars == << session, profile, channel, message, env, held, launch_msg >>
waitVars == << polls, negPolls, sleeps, elapsed, detectSecs, cycleStart, waitDone >>
publishVars == << gotos, tabClicked, titleSel, bodySel, titleOuts, titleTried,
                  bodyOuts, bodyTried, buttons, submitIdx, submitLookup, submitClicks,
                  indicator >>
searchVars == << scrolls, img_elements, results, title_elements, titles, files >>
inputVars == << wf, title, count, save_dir >>

\* The counters of a login waiter call are its own: they are dropped when
\* its caller takes its next step.
DropWaiterCounters ==
    /\ polls' = 0 /\ negPolls' = 0 /\ sleeps' = 0
    /\ elapsed' = 0 /\ detectSecs' = 0 /\ cycleStart' = 0
    /\ UNCHANGED waitDone

\* an exception leaves the try block: the finally clause runs next
Raise(name) == exc' = name /\ pc' = "finally"

\* A mutant of _launch_context: the handler prints its message and does not
\* exit, so the caller goes on without a context.
LaunchContextNoExit ==
    /\ pc = "launch" /\ wf \in {"publish", "status"}
    /\ \E e \in Envs :
         LET b == get_system_browser(e) IN
         /\ env' = {e}
         /\ IF b.user_data_dir = "none"
            THEN /\ message' = "no browser found"
                 /\ pc' = "exit" /\ exitCode' = 1
                 /\ UNCHANGED << session, profile, channel, held, launch_msg >>
            ELSE \/ /\ session' = "open"
                    /\ profile' = b.user_data_dir /\ channel' = b.channel
                    /\ pc' = "login_check"
                    /\ UNCHANGED << message, exitCode, held, launch_msg >>
                 \/ \E msg \in LaunchErrors :
                    /\ held' \in BOOLEAN
                    /\ launch_msg' = msg
                    /\ message' = IF lock_message(msg) THEN "close all browser windows"
                                   ELSE "browser launch failed"
                    /\ pc' = "login_check"
                    /\ UNCHANGED << session, profile, channel, exitCode >>
    /\ UNCHANGED << inputVars, closes, result, exc, waitVars, loginDetected,
                    publishVars, searchVars, printed, output, detVars >>

\* publish.py _launch_context (lines 45-69), called by publish_content and
\* check_status before their try block
LaunchContext ==
    /\ pc = "launch" /\ wf \in {"publish", "status"}
    /\ \E e \in Envs :
         LET b == get_system_browser(e) IN
         /\ env' = {e}
         /\ IF b.user_data_dir = "none"
            THEN /\ message' = "no browser found"
                 /\ pc' = "exit" /\ exitCode' = 1
                 /\ UNCHANGED << session, profile, channel, held, launch_msg >>
            ELSE \/ /\ session' = "open"
                    /\ profile' = b.user_data_dir /\ channel' = b.channel
                    /\ pc' = "login_check"
                    /\ UNCHANGED << message, exitCode, held, launch_msg >>
                 \/ \E msg \in LaunchErrors :
                    /\ held' \in BOOLEAN
                    /\ launch_msg' = msg
                    /\ message' = IF lock_message(msg) THEN "close all browser windows"
                                   ELSE "browser launch failed"
                    /\ pc' = "exit" /\ exitCode' = 1
                    /\ UNCHANGED << session, profile, channel >>
    /\ UNCHANGED << inputVars, closes, result, exc, waitVars, loginDetected,
                    publishVars, searchVars, printed, output, detVars >>

\* publish.py line 113 (publish_content) and line 220 (check_status): the
\* first login check
LoginCheck ==
    /\ pc = "login_check"
    /\ \E read \in WorkflowCookieReads :
         LET r == is_logged_in(read) IN
         \/ /\ r = "true"
            /\ loginDetected' = TRUE
            /\ IF wf = "publish"
               THEN pc' = "goto_publish" /\ UNCHANGED result
               ELSE pc' = "finally" /\ result' = [status |-> "logged_in"]
            /\ UNCHANGED exc
         \/ /\ r = "false"
            /\ pc' = "wait_open"
            /\ UNCHANGED << loginDetected, result, exc >>
         \/ /\ r = "raise"
            /\ Raise("cookies")
            /\ UNCHANGED << loginDetected, result >>
    /\ env' = {}
    /\ UNCHANGED << inputVars, session, profile, channel, message, held, launch_msg,
                    closes, waitVars,
                    publishVars, searchVars, printed, output, exitCode, detVars >>

\* publish.py _wait_for_login lines 89-91: open the login page
WaitOpen ==
    /\ pc = "wait_open"
    /\ \/ pc' = "wait_sleep" /\ UNCHANGED exc
       \/ Raise("goto")
    /\ UNCHANGED << inputVars, acquireVars, closes, result, waitVars, loginDetected,
                    publishVars, searchVars, printed, output, exitCode, detVars >>

\* publish.py _wait_for_login lines 92-93: next iteration, sleep 3 seconds
WaitSleep ==
    /\ pc = "wait_sleep" /\ polls < PublishMaxPolls
    /\ sleeps' = sleeps + 1
    /\ cycleStart' = elapsed
    /\ elapsed' = elapsed + PublishPollInterval
    /\ pc' = "wait_poll"
    /\ UNCHANGED << inputVars, acquireVars, closes, result, exc, polls, negPolls,
                    detectSecs, waitDone, loginDetected, publishVars, searchVars,
                    printed, output, exitCode, detVars >>

\* The statement after a successful _wait_for_login: publish goes on to the
\* publish page (line 118), status returns logged_in (line 227).
AfterLogin ==
    IF wf = "publish"
    THEN pc' = "goto_publish" /\ UNCHANGED result
    ELSE pc' = "finally" /\ result' = [status |-> "logged_in"]

\* A mutant of WaitPoll: a positive detection does not leave the loop.
WaitPollNoReturn ==
    /\ pc = "wait_poll"
    /\ \E read \in WorkflowCookieReads, d \in 0..MaxCookieReadSecs :
         LET r == is_logged_in(read) IN
         /\ polls' = polls + 1
         /\ elapsed' = elapsed + d
         /\ detectSecs' = detectSecs + d
         /\ \/ /\ r = "true"
               /\ loginDetected' = TRUE
               /\ pc' = "wait_sleep"
               /\ UNCHANGED << negPolls, result, exc, waitDone >>
            \/ /\ r = "false"
               /\ negPolls' = negPolls + 1
               /\ pc' = "wait_sleep"
               /\ UNCHANGED << loginDetected, result, exc, waitDone >>
            \/ /\ r = "raise"
               /\ Raise("cookies")
               /\ UNCHANGED << negPolls, loginDetected, result, waitDone >>
    /\ UNCHANGED << inputVars, acquireVars, closes, sleeps, cycleStart,
                    publishVars, searchVars, printed, output, exitCode, detVars >>

\* publish.py _wait_for_login lines 94-96: one detector call; True returns
\* the page at once
WaitPoll ==
    /\ pc = "wait_poll"
    /\ \E read \in WorkflowCookieReads, d \in 0..MaxCookieReadSecs :
         LET r == is_logged_in(read) IN
         /\ polls' = polls + 1
         /\ elapsed' = elapsed + d
         /\ detectSecs' = detectSecs + d
         /\ \/ /\ r = "true"
               /\ loginDetected' = TRUE
               /\ waitDone' = "ok"
               /\ AfterLogin
               /\ UNCHANGED << negPolls, exc >>
            \/ /\ r = "false"
               /\ negPolls' = negPolls + 1
               /\ pc' = "wait_sleep"
               /\ UNCHANGED << loginDetected, result, exc, waitDone >>
            \/ /\ r = "raise"
               /\ Raise("cookies")
               /\ UNCHANGED << negPolls, loginDetected, result, waitDone >>
    /\ UNCHANGED << inputVars, acquireVars, closes, sleeps, cycleStart,
                    publishVars, searchVars, printed, output, exitCode, detVars >>

\* A mutant of WaitTimeout: the loop gives up one iteration early.
WaitTimeoutOneShort ==
    /\ pc = "wait_sleep" /\ polls >= PublishMaxPolls - 1
    /\ waitDone' = "timeout"
    /\ result' = [status |-> "not_logged_in"]
    /\ pc' = "finally"
    /\ UNCHANGED << inputVars, acquireVars, closes, exc, polls, negPolls, sleeps,
                    elapsed, detectSecs, cycleStart, loginDetected, publishVars,
                    searchVars, printed, output, exitCode, detVars >>

\* A mutant of WaitTimeout: the caller does not test the returned page and
\* goes on to the publish page.
WaitTimeoutFallsThrough ==
    /\ pc = "wait_sleep" /\ polls >= PublishMaxPolls
    /\ waitDone' = "timeout"
    /\ IF wf = "publish"
       THEN pc' = "goto_publish" /\ UNCHANGED result
       ELSE pc' = "finally" /\ result' = [status |-> "not_logged_in"]
    /\ UNCHANGED exc
    /\ UNCHANGED << inputVars, acquireVars, closes, polls, negPolls, sleeps,
                    elapsed, detectSecs, cycleStart, loginDetected, publishVars,
                    searchVars, printed, output, exitCode, detVars >>

\* publish.py _wait_for_login lines 97-99: the loop is exhausted, the page
\* is closed and None returned; the caller returns not_logged_in (lines
\* 115-116, 228)
WaitTimeout ==
    /\ pc = "wait_sleep" /\ polls >= PublishMaxPolls
    /\ waitDone' = "timeout"
    /\ \/ /\ result' = [status |-> "not_logged_in"]
          /\ pc' = "finally"
          /\ UNCHANGED exc
       \/ /\ Raise("page.close")
          /\ UNCHANGED result
    /\ UNCHANGED << inputVars, acquireVars, closes, polls, negPolls, sleeps,
                    elapsed, detectSecs, cycleStart, loginDetected, publishVars,
                    searchVars, printed, output, exitCode, detVars >>

\* ========================================================= publish workflow
\* most controls the page holds that match the publish label
MaxButtons == 2

\* publish.py line 142 and line 159: the candidate selectors
title_selectors == << "input[placeholder*='title-zh']", "input[placeholder*='title']",
                      ".title-input input", "input[class*='title']" >>
content_selectors == << "div[contenteditable='true']", ".editor-content",
                        "div[class*='editor']" >>

\* every way the waits for n candidate selectors can end
CascadeRuns(n) == [1..n -> {"hit", "timeout"}]

\* publish.py lines 142-148 and 159-165: the loop waits for one selector
\* after the other and breaks at the first one that resolves
RECURSIVE WaitsFrom(_, _)
WaitsFrom(outs, i) ==
    IF i > Len(outs) THEN 0
    ELSE IF outs[i] = "hit" THEN 1
    ELSE 1 + WaitsFrom(outs, i + 1)
WaitsMade(outs) == WaitsFrom(outs, 1)

\* publish.py lines 120-127: (new page and) navigation to the publish page
GotoPublish ==
    /\ pc = "goto_publish"
    /\ \/ gotos' = gotos + 1 /\ pc' = "tab" /\ UNCHANGED exc
       \/ Raise("goto") /\ UNCHANGED gotos
    /\ DropWaiterCounters
    /\ UNCHANGED << inputVars, acquireVars, closes, result, loginDetected,
                    tabClicked, titleSel, bodySel, titleOuts, titleTried,
                    bodyOuts, bodyTried, buttons, submitIdx, submitLookup, submitClicks,
                    indicator, searchVars, printed, output, exitCode, detVars >>

\* A mutant of ClickTab: the tab is looked for outside the handler, so a tab
\* that is not found raises.
ClickTabUnabsorbed ==
    /\ pc = "tab"
    /\ \/ tabClicked' = TRUE /\ pc' = "title" /\ UNCHANGED exc
       \/ Raise("tab") /\ UNCHANGED tabClicked
    /\ UNCHANGED << inputVars, acquireVars, closes, result, waitVars,
                    loginDetected, gotos, titleSel, bodySel, titleOuts, titleTried,
                    bodyOuts, bodyTried, buttons, submitIdx, submitLookup,
                    submitClicks, indicator, searchVars, printed, output, exitCode,
                    detVars >>

\* publish.py lines 131-137: click the image/text tab; a failure is absorbed
ClickTab ==
    /\ pc = "tab"
    /\ tabClicked' \in BOOLEAN
    /\ pc' = "title"
    /\ UNCHANGED << inputVars, acquireVars, closes, result, exc, waitVars,
                    loginDetected, gotos, titleSel, bodySel, titleOuts, titleTried,
                    bodyOuts, bodyTried, buttons, submitIdx, submitLookup,
                    submitClicks, indicator, searchVars, printed, output, exitCode,
                    detVars >>

\* index of the last selector that resolves, 0 when none does
RECURSIVE LastHit(_, _)
LastHit(outs, i) ==
    IF i = 0 THEN 0
    ELSE IF outs[i] = "hit" THEN i
    ELSE LastHit(outs, i - 1)

\* A mutant of FillTitle: the loop has no break, every selector is waited
\* for and the last one that resolves is used.
FillTitleNoBreak ==
    /\ pc = "title"
    /\ \E outs \in CascadeRuns(Len(title_selectors)) :
         LET i == LastHit(outs, Len(outs)) IN
         /\ titleOuts' = outs
         /\ titleSel' = i
         /\ titleTried' = Len(outs)
         /\ \/ pc' = "body" /\ UNCHANGED exc
            \/ i > 0 /\ Raise("fill")
    /\ UNCHANGED << inputVars, acquireVars, closes, result, waitVars, loginDetected,
                    gotos, tabClicked, bodySel, bodyOuts, bodyTried, buttons,
                    submitIdx, submitLookup, submitClicks, indicator, searchVars,
                    printed, output,
                    exitCode, detVars >>

\* publish.py lines 141-154: the title field, first selector that resolves;
\* click and fill are outside any handler
FillTitle ==
    /\ pc = "title"
    /\ \E outs \in CascadeRuns(Len(title_selectors)) :
         LET i == FirstHit(outs, 1) IN
         /\ titleOuts' = outs
         /\ titleSel' = i
         /\ titleTried' = WaitsMade(outs)
         /\ \/ pc' = "body" /\ UNCHANGED exc
            \/ i > 0 /\ Raise("fill")
    /\ UNCHANGED << inputVars, acquireVars, closes, result, waitVars, loginDetected,
                    gotos, tabClicked, bodySel, bodyOuts, bodyTried, buttons, submitIdx,
                    submitLookup, submitClicks,
                    indicator, searchVars, printed, output, exitCode, detVars >>

\* publish.py lines 158-174: the body field, typed through the keyboard
FillBody ==
    /\ pc = "body"
    /\ \E outs \in CascadeRuns(Len(content_selectors)) :
         LET i == FirstHit(outs, 1) IN
         /\ bodyOuts' = outs
         /\ bodySel' = i
         /\ bodyTried' = WaitsMade(outs)
         /\ \/ pc' = "find_submit" /\ UNCHANGED exc
            \/ i > 0 /\ Raise("type")
    /\ UNCHANGED << inputVars, acquireVars, closes, result, waitVars, loginDetected,
                    gotos, tabClicked, titleSel, titleOuts, titleTried, buttons,
                    submitIdx, submitLookup, submitClicks,
                    indicator, searchVars, printed, output, exitCode, detVars >>

\* A mutant of FindSubmit: the first of the matching buttons is taken.
FindSubmitFirst ==
    /\ pc = "find_submit"
    /\ \E waitOk \in BOOLEAN, queryOk \in BOOLEAN, n \in 0..MaxButtons :
         LET found == IF waitOk /\ queryOk THEN n ELSE 0 IN
         /\ submitLookup' = IF ~waitOk THEN "wait_failed"
                            ELSE IF ~queryOk THEN "query_failed" ELSE "ok"
         /\ buttons' = found
         /\ submitIdx' = Min(found, 1)
         /\ IF found > 0
            THEN pc' = "click_submit" /\ UNCHANGED result
            ELSE /\ result' = [status |-> "ready", title |-> title]
                 /\ pc' = "finally"
    /\ UNCHANGED << inputVars, acquireVars, closes, exc, waitVars, loginDetected,
                    gotos, tabClicked, titleSel, bodySel, titleOuts, titleTried,
                    bodyOuts, bodyTried, submitClicks, indicator,
                    searchVars, printed, output, exitCode, detVars >>

\* publish.py lines 179-188 and 206-208: wait for a publish button, then
\* take the last of all that match; None when the wait or the query fails
\* or nothing matches, and then the outcome is ready
FindSubmit ==
    /\ pc = "find_submit"
    /\ \E waitOk \in BOOLEAN, queryOk \in BOOLEAN, n \in 0..MaxButtons :
         LET found == IF waitOk /\ queryOk THEN n ELSE 0 IN
         /\ submitLookup' = IF ~waitOk THEN "wait_failed"
                            ELSE IF ~queryOk THEN "query_failed" ELSE "ok"
         /\ buttons' = found
         /\ submitIdx' = found
         /\ IF found > 0
            THEN pc' = "click_submit" /\ UNCHANGED result
            ELSE /\ result' = [status |-> "ready", title |-> title]
                 /\ pc' = "finally"
    /\ UNCHANGED << inputVars, acquireVars, closes, exc, waitVars, loginDetected,
                    gotos, tabClicked, titleSel, bodySel, titleOuts, titleTried,
                    bodyOuts, bodyTried, submitClicks, indicator,
                    searchVars, printed, output, exitCode, detVars >>

\* publish.py lines 190-193: click the button found
ClickSubmit ==
    /\ pc = "click_submit"
    /\ \/ submitClicks' = submitClicks + 1 /\ pc' = "indicator" /\ UNCHANGED exc
       \/ Raise("click") /\ UNCHANGED submitClicks
    /\ UNCHANGED << inputVars, acquireVars, closes, result, waitVars, loginDetected,
                    gotos, tabClicked, titleSel, bodySel, titleOuts, titleTried,
                    bodyOuts, bodyTried, buttons, submitIdx, submitLookup,
                    indicator, searchVars, printed, output, exitCode, detVars >>

\* A mutant of AwaitIndicator: a missed indicator is reported as ready.
AwaitIndicatorReady ==
    /\ pc = "indicator"
    /\ \E seen \in BOOLEAN :
         /\ indicator' = IF seen THEN "seen" ELSE "missed"
         /\ result' = [status |-> IF seen THEN "published" ELSE "ready",
                       title |-> title]
    /\ pc' = "finally"
    /\ UNCHANGED << inputVars, acquireVars, closes, exc, waitVars, loginDetected,
                    gotos, tabClicked, titleSel, bodySel, titleOuts, titleTried,
                    bodyOuts, bodyTried, buttons, submitIdx, submitLookup,
                    submitClicks, searchVars, printed, output, exitCode, detVars >>

\* A mutant of AwaitIndicator: when the indicator is missed the submit
\* control is clicked a second time before the run gives up.
AwaitIndicatorRetryClick ==
    /\ pc = "indicator"
    /\ \E seen \in BOOLEAN :
         /\ indicator' = IF seen THEN "seen" ELSE "missed"
         /\ IF ~seen /\ submitClicks < 2
            THEN pc' = "click_submit" /\ UNCHANGED result
            ELSE /\ result' = [status |-> IF seen THEN "published"
                                          ELSE "ready_to_confirm",
                               title |-> title]
                 /\ pc' = "finally"
    /\ UNCHANGED << inputVars, acquireVars, closes, exc, waitVars, loginDetected,
                    gotos, tabClicked, titleSel, bodySel, titleOuts, titleTried,
                    bodyOuts, bodyTried, buttons, submitIdx, submitLookup,
                    submitClicks, searchVars, printed, output, exitCode, detVars >>

\* publish.py lines 195-205: wait for the success indicator; seen gives
\* published, a timeout gives ready_to_confirm
AwaitIndicator ==
    /\ pc = "indicator"
    /\ \E seen \in BOOLEAN :
         /\ indicator' = IF seen THEN "seen" ELSE "missed"
         /\ result' = [status |-> IF seen THEN "published" ELSE "ready_to_confirm",
                       title |-> title]
    /\ pc' = "finally"
    /\ UNCHANGED << inputVars, acquireVars, closes, exc, waitVars, loginDetected,
                    gotos, tabClicked, titleSel, bodySel, titleOuts, titleTried,
                    bodyOuts, bodyTried, buttons, submitIdx, submitLookup,
                    submitClicks, searchVars, printed, output, exitCode, detVars >>

\* A mutant of Finally: the context is closed at the end of the try block
\* instead of in a finally clause, so an exception skips it.
FinallyOnlyOnReturn ==
    /\ pc = "finally"
    /\ IF exc = "none"
       THEN session' = "closed" /\ closes' = closes + 1
       ELSE UNCHANGED << session, closes >>
    /\ pc' = "main"
    /\ DropWaiterCounters
    /\ UNCHANGED << inputVars, profile, channel, message, env, held, launch_msg,
                    result, exc,
                    loginDetected, publishVars, searchVars, printed, output, exitCode,
                    detVars >>

\* publish.py lines 210-211, 230-231, search.py lines 216-217: the finally
\* clause closes the browser context on every way out of the try block
Finally ==
    /\ pc = "finally"
    /\ session' = "closed"
    /\ closes' = closes + 1
    /\ pc' = "main"
    /\ DropWaiterCounters
    /\ UNCHANGED << inputVars, profile, channel, message, env, held, launch_msg,
                    result, exc,
                    loginDetected, publishVars, searchVars, printed, output, exitCode,
                    detVars >>

\* publish.py main lines 246-247, 257-258, search.py main lines 230-243:
\* the value returned is printed as one JSON object; an exception that left
\* the workflow is not caught and ends the process with a traceback
Main ==
    /\ pc = "main"
    /\ IF exc = "none"
       THEN /\ printed' = printed + 1
            /\ exitCode' = 0
            /\ output' = IF wf = "search"
                         THEN [keyword |-> "lamp", images |-> results,
                               titles |-> titles, count |-> Len(results)]
                         ELSE output
       ELSE UNCHANGED << printed, output >> /\ exitCode' = 1
    /\ pc' = "exit"
    /\ UNCHANGED << inputVars, acquireVars, closes, result, exc, waitVars,
                    loginDetected, publishVars, searchVars, detVars >>

\* ========================================================== search workflow
\* Image sources as get_attribute('src') gives them, character by character.
SrcProtocolRelative == << "/", "/", "i" >>
SrcHttps == << "h", "t", "t", "p", "s", ":", "/", "/", "i" >>
SrcFtp == << "f", "t", "p", ":", "/", "/", "x" >>
SrcRelative == << "a", ".", "p", "n", "g" >>
SrcEmpty == << >>

\* One image element: its src attribute, or a get_attribute call that raises.
ImgReads == {[ok |-> FALSE, src |-> SrcEmpty]}
            \cup {[ok |-> TRUE, src |-> x] :
                    x \in {SrcEmpty, SrcProtocolRelative, SrcHttps, SrcFtp, SrcRelative}}

\* One title element: its inner text, or an inner_text call that raises.
TitleReads == {[ok |-> FALSE, text |-> << >>], [ok |-> TRUE, text |-> << >>],
               [ok |-> TRUE, text |-> << " ", "t" >>]}

RECURSIVE SeqsUpTo(_, _)
SeqsUpTo(S, n) ==
    IF n = 0 THEN {<< >>}
    ELSE LET shorter == SeqsUpTo(S, n - 1) IN
         shorter \cup {Append(q, x) : q \in {r \in shorter : Len(r) = n - 1}, x \in S}

\* Python's sub in s, for strings
Contains(s, sub) ==
    \E i \in 0..(Len(s) - Len(sub)) : SubSeq(s, i + 1, i + Len(sub)) = sub

\* Python's s.startswith(prefix)
StartsWith(s, prefix) ==
    Len(s) >= Len(prefix) /\ SubSeq(s, 1, Len(prefix)) = prefix

\* Python's s.strip(), for the blank character
RECURSIVE LStrip(_)
LStrip(s) == IF s # << >> /\ Head(s) = " " THEN LStrip(Tail(s)) ELSE s
RECURSIVE RStrip(_)
RStrip(s) ==
    IF s # << >> /\ s[Len(s)] = " " THEN RStrip(SubSeq(s, 1, Len(s) - 1)) ELSE s
strip(s) == RStrip(LStrip(s))

\* Python's s[:c]: a negative c counts from the end
PySlice(s, c) ==
    IF c >= 0 THEN SubSeq(s, 1, Min(c, Len(s)))
    ELSE SubSeq(s, 1, Max(Len(s) + c, 0))

\* search.py lines 163-167: the test a source must pass, and what is kept
accepted(src) ==
    src # << >> /\ (Contains(src, << "h", "t", "t", "p" >>) \/ Contains(src, << "/", "/" >>))
normalized(src) ==
    IF StartsWith(src, << "/", "/" >>) THEN << "h", "t", "t", "p", "s", ":" >> \o src
    ELSE src

\* search.py lines 159-170: the loop over img_elements[:count]
RECURSIVE harvest_loop(_)
harvest_loop(elems) ==
    IF elems = << >> THEN << >>
    ELSE LET e == Head(elems) IN
         (IF e.ok /\ accepted(e.src) THEN << normalized(e.src) >> ELSE << >>)
         \o harvest_loop(Tail(elems))
harvest(elems, c) == harvest_loop(PySlice(elems, c))

\* search.py lines 176-183: the loop over title_elements[:count]
RECURSIVE titles_loop(_)
titles_loop(elems) ==
    IF elems = << >> THEN << >>
    ELSE LET e == Head(elems) IN
         (IF e.ok /\ e.text # << >> THEN << strip(e.text) >> ELSE << >>)
         \o titles_loop(Tail(elems))
harvest_titles(elems, c) == titles_loop(PySlice(elems, c))

\* the pages the workflow's detector calls are tried on
WorkflowSelectorRuns ==
    {SelectorRun(i, other) : i \in {0, 1, Len(selectors)}, other \in {"timeout", "error"}}
WorkflowHtmlReads ==
    {[ok |-> FALSE, fragments |-> {}], [ok |-> TRUE, fragments |-> {}],
     [ok |-> TRUE, fragments |-> {"logout"}]}

\* A mutant of SearchLaunch: without a profile directory the run is given
\* up, as _launch_context of publish.py does.
SearchLaunchNeedsProfile ==
    /\ pc = "launch" /\ wf = "search"
    /\ \E e \in Envs :
         /\ env' = {e}
         /\ IF get_default_chrome_user_data_dir(e) = "none"
            THEN /\ message' = "no browser found"
                 /\ pc' = "exit" /\ exitCode' = 1
                 /\ UNCHANGED << session, profile, exc, held, launch_msg >>
            ELSE /\ UNCHANGED << message, exitCode >>
                 /\ \/ /\ session' = "open"
                       /\ profile' = get_default_chrome_user_data_dir(e)
                       /\ pc' = "s_open"
                       /\ UNCHANGED << exc, held, launch_msg >>
                    \/ /\ held' \in BOOLEAN
                       /\ launch_msg' \in LaunchErrors
                       /\ exc' = "launch" /\ pc' = "main"
                       /\ UNCHANGED << session, profile >>
    /\ UNCHANGED << inputVars, channel, closes, result, waitVars,
                    loginDetected, publishVars, searchVars, printed, output,
                    detVars >>

\* search.py lines 109-124: the profile directory is looked up and a
\* persistent context launched on it, without a channel; with no directory
\* an ephemeral browser is launched.  A failed launch is outside the try
\* block and leaves crawl_xiaohongshu at once.
SearchLaunch ==
    /\ pc = "launch" /\ wf = "search"
    /\ \E e \in Envs :
         /\ env' = {e}
         /\ \/ /\ session' = "open"
               /\ profile' = get_default_chrome_user_data_dir(e)
               /\ pc' = "s_open"
               /\ UNCHANGED << exc, held, launch_msg >>
            \/ /\ held' \in IF get_default_chrome_user_data_dir(e) = "none"
                             THEN {FALSE} ELSE BOOLEAN
               /\ launch_msg' \in LaunchErrors
               /\ exc' = "launch" /\ pc' = "main"
               /\ UNCHANGED << session, profile >>
    /\ UNCHANGED << inputVars, channel, message, closes, result, waitVars,
                    loginDetected, publishVars, searchVars, printed, output,
                    exitCode, detVars >>

\* search.py lines 127-133: new page, navigation to the search url
SearchOpen ==
    /\ pc = "s_open"
    /\ \/ gotos' = gotos + 1 /\ pc' = "s_login_check" /\ UNCHANGED exc
       \/ Raise("goto") /\ UNCHANGED gotos
    /\ env' = {}
    /\ UNCHANGED << inputVars, session, profile, channel, message, held, launch_msg,
                    closes, result,
                    waitVars, loginDetected, tabClicked, titleSel, bodySel, titleOuts,
                    titleTried,
                    bodyOuts, bodyTried, buttons,
                    submitIdx, submitLookup, submitClicks, indicator, searchVars,
                    printed, output,
                    exitCode, detVars >>

\* search.py lines 136-139 and 89-95: the first login check; when negative
\* the operator is notified and the waiter's clock starts
SearchLoginCheck ==
    /\ pc = "s_login_check"
    /\ \E outs \in WorkflowSelectorRuns, html \in WorkflowHtmlReads :
         IF check_login(outs, html) = "true"
         THEN loginDetected' = TRUE /\ pc' = "scroll"
         ELSE UNCHANGED loginDetected /\ pc' = "s_wait"
    /\ UNCHANGED << inputVars, acquireVars, closes, result, exc, waitVars,
                    publishVars, searchVars, printed, output, exitCode, detVars >>

\* search.py wait_for_login lines 96-99: the deadline is tested at the head
\* of the loop, then one detector call; True returns at once
SearchWaitPoll ==
    /\ pc = "s_wait" /\ elapsed < SearchMaxWait
    /\ \E outs \in WorkflowSelectorRuns, html \in WorkflowHtmlReads :
         LET d == check_login_seconds(outs) IN
         /\ polls' = polls + 1
         /\ cycleStart' = elapsed
         /\ elapsed' = elapsed + d
         /\ detectSecs' = detectSecs + d
         /\ IF check_login(outs, html) = "true"
            THEN /\ loginDetected' = TRUE
                 /\ waitDone' = "ok"
                 /\ pc' = "s_regoto"
                 /\ UNCHANGED negPolls
            ELSE /\ negPolls' = negPolls + 1
                 /\ pc' = "s_wait_sleep"
                 /\ UNCHANGED << loginDetected, waitDone >>
    /\ UNCHANGED << inputVars, acquireVars, closes, result, exc, sleeps,
                    publishVars, searchVars, printed, output, exitCode, detVars >>

\* search.py wait_for_login line 100: the interval wait
SearchWaitSleep ==
    /\ pc = "s_wait_sleep"
    /\ sleeps' = sleeps + 1
    /\ elapsed' = elapsed + SearchPollInterval
    /\ pc' = "s_wait"
    /\ UNCHANGED << inputVars, acquireVars, closes, result, exc, polls, negPolls,
                    detectSecs, cycleStart, waitDone, loginDetected, publishVars,
                    searchVars, printed, output, exitCode, detVars >>

\* search.py wait_for_login lines 102-103 and crawl_xiaohongshu lines
\* 140-141: the deadline has passed, False is returned and the caller
\* raises Exception
SearchWaitTimeout ==
    /\ pc = "s_wait" /\ elapsed >= SearchMaxWait
    /\ waitDone' = "timeout"
    /\ Raise("login not completed")
    /\ UNCHANGED << inputVars, acquireVars, closes, result, polls, negPolls, sleeps,
                    elapsed, detectSecs, cycleStart, loginDetected, publishVars,
                    searchVars, printed, output, exitCode, detVars >>

\* A mutant of SearchRegoto: the search url is not loaded again.
SearchRegotoSkipped ==
    /\ pc = "s_regoto"
    /\ pc' = "scroll"
    /\ DropWaiterCounters
    /\ UNCHANGED << inputVars, acquireVars, closes, result, exc, loginDetected,
                    publishVars, searchVars, printed, output, exitCode, detVars >>

\* search.py lines 142-143: the search url is loaded again after the login
SearchRegoto ==
    /\ pc = "s_regoto"
    /\ \/ gotos' = gotos + 1 /\ pc' = "scroll" /\ UNCHANGED exc
       \/ Raise("goto") /\ UNCHANGED gotos
    /\ DropWaiterCounters
    /\ UNCHANGED << inputVars, acquireVars, closes, result, loginDetected,
                    tabClicked, titleSel, bodySel, titleOuts, titleTried,
                    bodyOuts, bodyTried, buttons, submitIdx, submitLookup, submitClicks,
                    indicator, searchVars, printed, output, exitCode, detVars >>

\* A mutant of Scroll: the loop scrolls until an evaluate call fails; its
\* counter wraps instead of ending it.
ScrollUntilFailure ==
    /\ pc = "scroll" /\ scrolls < ScrollCycles
    /\ \/ scrolls' = (scrolls + 1) % ScrollCycles /\ UNCHANGED << pc, exc >>
       \/ Raise("evaluate") /\ UNCHANGED scrolls
    /\ UNCHANGED << inputVars, acquireVars, closes, result, waitVars, loginDetected,
                    publishVars, img_elements, results, title_elements, titles,
                    files, printed, output, exitCode, detVars >>

\* search.py lines 147-149: one scroll to the bottom and a 2 s wait
Scroll ==
    /\ pc = "scroll" /\ scrolls < ScrollCycles
    /\ \/ scrolls' = scrolls + 1 /\ UNCHANGED << pc, exc >>
       \/ Raise("evaluate") /\ UNCHANGED scrolls
    /\ UNCHANGED << inputVars, acquireVars, closes, result, waitVars, loginDetected,
                    publishVars, img_elements, results, title_elements, titles,
                    files, printed, output, exitCode, detVars >>

\* A mutant of Extract: the scroll loop is range(4).
ExtractAfterFour ==
    /\ pc = "scroll" /\ scrolls >= ScrollCycles - 1
    /\ \/ \E imgs \in SeqsUpTo(ImgReads, MaxImgs), ts \in SeqsUpTo(TitleReads, MaxTitles) :
            /\ img_elements' = imgs
            /\ results' = harvest(imgs, count)
            /\ title_elements' = ts
            /\ titles' = harvest_titles(ts, count)
            /\ pc' = "save"
            /\ UNCHANGED exc
       \/ /\ Raise("query_selector_all")
          /\ UNCHANGED << img_elements, results, title_elements, titles >>
    /\ UNCHANGED << inputVars, acquireVars, closes, result, waitVars, loginDetected,
                    publishVars, scrolls, files, printed, output, exitCode, detVars >>

\* search.py lines 155-183: query the image and the title elements and
\* harvest at most count of each
Extract ==
    /\ pc = "scroll" /\ scrolls >= ScrollCycles
    /\ \/ \E imgs \in SeqsUpTo(ImgReads, MaxImgs), ts \in SeqsUpTo(TitleReads, MaxTitles) :
            /\ img_elements' = imgs
            /\ results' = harvest(imgs, count)
            /\ title_elements' = ts
            /\ titles' = harvest_titles(ts, count)
            /\ pc' = "save"
            /\ UNCHANGED exc
       \/ /\ Raise("query_selector_all")
          /\ UNCHANGED << img_elements, results, title_elements, titles >>
    /\ UNCHANGED << inputVars, acquireVars, closes, result, waitVars, loginDetected,
                    publishVars, scrolls, files, printed, output, exitCode, detVars >>

\* search.py lines 191-214: with a save directory the links file is written,
\* the titles file only when there are titles; line 212 then formats
\* titles_file, which is unbound when no titles file was written.  The
\* function returns (results, titles).
Save ==
    /\ pc = "save"
    /\ IF ~save_dir
       THEN /\ result' = [status |-> "harvested"] /\ pc' = "finally"
            /\ UNCHANGED << files, exc >>
       ELSE \/ /\ Raise("write") /\ UNCHANGED << files, result >>
            \/ /\ titles # << >>
               /\ files' = files \cup {"links", "titles"}
               /\ result' = [status |-> "harvested"] /\ pc' = "finally"
               /\ UNCHANGED exc
            \/ /\ titles = << >>
               /\ files' = files \cup {"links"}
               /\ Raise("UnboundLocalError")
               /\ UNCHANGED result
    /\ img_elements' = << >> /\ title_elements' = << >>
    /\ UNCHANGED << inputVars, acquireVars, closes, waitVars, loginDetected,
                    publishVars, scrolls, results, titles, printed, output,
                    exitCode, detVars >>

\* ------------------------------------------------------------ specifications
Next ==
    \/ LaunchContext \/ LoginCheck \/ WaitOpen \/ WaitSleep \/ WaitPoll \/ WaitTimeout
    \/ GotoPublish \/ ClickTab \/ FillTitle \/ FillBody \/ FindSubmit \/ ClickSubmit
    \/ AwaitIndicator \/ Finally \/ Main
    \/ SearchLaunch \/ SearchOpen \/ SearchLoginCheck \/ SearchWaitPoll
    \/ SearchWaitSleep \/ SearchWaitTimeout \/ SearchRegoto \/ Scroll \/ Extract \/ Save

Spec == Init /\ [][Next]_vars

\* The workflows when every driver call returns or times out: an
\* invocation is one sequential coroutine, so whenever a step is possible
\* some step is taken.  Which way a driver call ends is not constrained.
\* The title and the count are payload: the title is only filled in and
\* returned (publish.py lines 151, 200-208), the count only slices the
\* finite element lists (search.py lines 160, 177).  Neither decides a
\* branch or bounds a wait, so one title and the counts 0 and 1 are taken.
InitLive == Init /\ title \in {"", "Hello"} /\ count \in {0, 1}

SpecLive == InitLive /\ [][Next]_vars /\ WF_vars(Next)

\* the detectors alone, on every cookie read and page of the families above
InitDetect ==
    /\ wf = "detect" /\ pc = "exit"
    /\ title = "" /\ count = 0 /\ save_dir = FALSE
    /\ session = "none" /\ profile = "none" /\ channel = "" /\ message = ""
    /\ env = {} /\ held = FALSE /\ launch_msg = {}
    /\ closes = 0 /\ result = NoResult /\ exc = "none"
    /\ polls = 0 /\ negPolls = 0 /\ sleeps = 0 /\ elapsed = 0 /\ detectSecs = 0
    /\ cycleStart = 0 /\ waitDone = "none" /\ loginDetected = FALSE
    /\ gotos = 0 /\ tabClicked = FALSE /\ titleSel = 0 /\ bodySel = 0
    /\ titleOuts = << >> /\ titleTried = 0 /\ bodyOuts = << >> /\ bodyTried = 0
    /\ buttons = 0 /\ submitIdx = 0 /\ submitLookup = "none"
    /\ submitClicks = 0 /\ indicator = "none"
    /\ scrolls = 0 /\ img_elements = << >> /\ results = << >>
    /\ title_elements = << >> /\ titles = << >> /\ files = {}
    /\ printed = 0 /\ output = NoOutput /\ exitCode = -1
    /\ DetectInit

NextDetect == DetectPublish \/ DetectSearch

SpecDetect == InitDetect /\ [][NextDetect]_vars

\* ================================================================ properties
\* the outcome tag the publish mapping prescribes for what the run observed
ExpectedStatus ==
    IF waitDone = "timeout" THEN "not_logged_in"
    ELSE IF submitIdx = 0 THEN "ready"
    ELSE IF submitClicks = 1 /\ indicator = "seen" THEN "published"
    ELSE IF submitClicks = 1 /\ indicator = "missed" THEN "ready_to_confirm"
    ELSE "no outcome"

\* C1: whenever publish_content returns, its tag is not_logged_in after a
\* login wait that timed out, else ready when no submit control was located,
\* else published when the clicked control was followed by the success
\* indicator, else ready_to_confirm; no other tag is returned, and
\* published, ready_to_confirm and ready carry the caller's title.
ThmC1_PublishOutcome ==
    (wf = "publish" /\ result # NoResult) =>
        /\ result.status \in {"not_logged_in", "published", "ready_to_confirm", "ready"}
        /\ result.status = ExpectedStatus
        /\ IF result.status = "not_logged_in"
           THEN DOMAIN result = {"status"}
           ELSE DOMAIN result = {"status", "title"} /\ result.title = title

\* C1: a run that logged in through the waiter, clicked submit and never saw
\* the indicator has ended with ready_to_confirm.
WitC1_ReadyToConfirmAfterWait ==
    /\ wf = "publish" /\ pc = "exit" /\ waitDone = "ok"
    /\ submitClicks = 1 /\ indicator = "missed"
    /\ result = [status |-> "ready_to_confirm", title |-> title]

\* C2: in every workflow an acquired browser context is closed exactly once
\* before the workflow ends, on every way out, and nothing runs on it after
\* the close; no terminal state has an acquired context still open.
ThmC2_SessionClosedOnce ==
    /\ closes <= 1
    /\ (session = "closed") <=> (closes = 1)
    /\ session = "closed" => pc \in {"main", "exit"}
    /\ (pc \in {"main", "exit"} /\ session # "none") => (session = "closed" /\ closes = 1)

\* C2: a search run whose file write failed has ended with the context closed.
WitC2_ClosedAfterWriteFailure ==
    /\ wf = "search" /\ pc = "exit" /\ exc = "write"
    /\ session = "closed" /\ closes = 1

\* C3: in the publish workflow, after a login wait that timed out nothing
\* further is attempted (no navigation to the publish page, no tab click, no
\* title or body fill, no submit click), and a submit click is always
\* preceded by a positive login detection.
ThmC3_NoActionAfterLoginTimeout ==
    /\ (wf = "publish" /\ waitDone = "timeout") =>
          /\ pc \in {"finally", "main", "exit"}
          /\ gotos = 0 /\ ~tabClicked /\ titleSel = 0 /\ bodySel = 0
          /\ buttons = 0 /\ submitClicks = 0
    /\ submitClicks > 0 => loginDetected

\* C3: a publish run has ended with not_logged_in after its login wait timed out.
WitC3_LoginTimeoutReturned ==
    /\ wf = "publish" /\ pc = "exit" /\ waitDone = "timeout"
    /\ result = [status |-> "not_logged_in"] /\ ~loginDetected

HasKnownCookie == dRead.ok /\ (dRead.names \cap KnownCookieNames) # {}
NoSelectorHit == \A i \in 1..Len(dOuts) : dOuts[i] # "hit"
ContentHit == dHtml.ok /\ (dHtml.fragments \cap login_indicators) # {}

\* C4 as stated: with a known session cookie present, the detector of the
\* publish workflow and the detector of the search workflow both return true.
CexC4_BothDetectorsReadCookies ==
    HasKnownCookie => (dPub \in {"none", "true"} /\ dSrch \in {"none", "true"})

\* C4 amended: with a known session cookie present the publish detector
\* returns true; the search detector reads no cookie and returns true
\* exactly when a selector resolves or the page content holds an indicator.
ThmC4_CookieDetection ==
    /\ (HasKnownCookie /\ dPub # "none") => dPub = "true"
    /\ dSrch # "none" => ((dSrch = "true") <=> (~NoSelectorHit \/ ContentHit))

\* C4: on a profile with a known cookie and a page without login signals
\* the publish detector has said true and the search detector false.
WitC4_CookieSeenOnlyByPublish ==
    /\ HasKnownCookie /\ "gid" \in dRead.names
    /\ dPub = "true" /\ dSrch = "false"

\* C5: with no known session cookie, no selector resolving and no indicator
\* in the page content, both detectors return false.
ThmC5_NoSignalNoLogin ==
    (dRead.ok /\ (dRead.names \cap KnownCookieNames) = {} /\ NoSelectorHit
        /\ (dHtml.fragments \cap login_indicators) = {})
    => (dPub \in {"none", "false"} /\ dSrch \in {"none", "false"})

\* C5: both detectors have said false on a foreign cookie and a page that
\* shows only a login button.
WitC5_BothFalse ==
    /\ dRead = [ok |-> TRUE, names |-> {"xsecappid"}]
    /\ NoSelectorHit /\ dHtml = [ok |-> TRUE, fragments |-> {"login-button"}]
    /\ dPub = "false" /\ dSrch = "false"

\* C6 as stated: neither detector ever raises.
CexC6_NoDetectorRaises ==
    dPub # "raise" /\ dSrch # "raise"

\* C6 amended: the search detector never raises, a failed lookup counts as
\* not detected; the publish detector returns a boolean when the cookie read
\* succeeds and lets a failed cookie read propagate.
ThmC6_DetectorFailures ==
    /\ dSrch \in {"none", "true", "false"}
    /\ (dSrch # "none" /\ NoSelectorHit /\ ~dHtml.ok) => dSrch = "false"
    /\ dPub # "none" => ((dPub = "raise") <=> ~dRead.ok)

\* C6: on a failed cookie read and a failed page read the publish detector
\* has raised and the search detector has said false.
WitC6_FailedLookups ==
    /\ ~dRead.ok /\ ~dHtml.ok /\ NoSelectorHit
    /\ dPub = "raise" /\ dSrch = "false"

\* the login waiter is running
InWaiter == pc \in {"wait_open", "wait_sleep", "wait_poll", "s_wait", "s_wait_sleep"}
\* the login waiter has just returned to its caller
WaiterReturned ==
    \/ wf = "publish" /\ pc = "goto_publish" /\ waitDone = "ok"
    \/ wf = "status" /\ pc = "finally" /\ waitDone = "ok"
    \/ wf = "search" /\ pc = "s_regoto" /\ waitDone = "ok"
    \/ pc = "finally" /\ waitDone = "timeout"

\* C7: the login waiter returns on the first poll that detects a login: while
\* it runs every poll so far was negative, when it succeeds on the k-th poll
\* it has made exactly k polls (k - 1 negative ones), and after the success
\* it makes no further poll and no further interval wait.
ThmC7_ReturnOnFirstDetection ==
    /\ InWaiter => (waitDone = "none" /\ negPolls = polls)
    /\ (WaiterReturned /\ waitDone = "ok") =>
          /\ polls = negPolls + 1
          /\ sleeps = IF wf = "search" THEN polls - 1 ELSE polls
          /\ wf # "search" => polls <= PublishMaxPolls
          /\ wf = "search" => cycleStart < SearchMaxWait
    /\ waitDone = "ok" => ~InWaiter

\* C7: the search waiter has succeeded on its 3rd poll, after 2 interval waits.
WitC7_ThirdPoll ==
    /\ wf = "search" /\ pc = "s_regoto" /\ waitDone = "ok"
    /\ polls = 3 /\ negPolls = 2 /\ sleeps = 2

\* the interval of the workflow's login waiter
PollInterval == IF wf = "search" THEN SearchPollInterval ELSE PublishPollInterval

CexC9_SearchAlwaysPrints ==
    (wf = "search" /\ pc = "exit" /\ session # "none"
        /\ (result # NoResult \/ waitDone = "timeout"))
    => (printed = 1 /\ exitCode = 0)

\* sources of the elements whose attribute could be read, as they are kept
RECURSIVE SourcesOf(_)
SourcesOf(elems) ==
    IF elems = << >> THEN << >>
    ELSE (IF Head(elems).ok THEN << normalized(Head(elems).src) >> ELSE << >>)
         \o SourcesOf(Tail(elems))

\* a is b with some elements left out
RECURSIVE IsSubseq(_, _)
IsSubseq(a, b) ==
    IF a = << >> THEN TRUE
    ELSE IF b = << >> THEN FALSE
    ELSE IF Head(a) = Head(b) THEN IsSubseq(Tail(a), Tail(b))
    ELSE IsSubseq(a, Tail(b))

AllAcceptable == \A i \in 1..Len(img_elements) : img_elements[i].ok /\ accepted(img_elements[i].src)

\* C10 as stated: for every count c the harvested images are a subsequence
\* of the element sources in encounter order, no more than c of them (none
\* for a negative c), exactly min(N, c) when every source is acceptable, and
\* the count printed is the length of the images printed.
CexC10_HarvestCappedByCount ==
    /\ (wf = "search" /\ pc = "save") =>
          /\ IsSubseq(results, SourcesOf(img_elements))
          /\ Len(results) <= Max(count, 0)
          /\ AllAcceptable => Len(results) = Min(Len(img_elements), Max(count, 0))
    /\ (wf = "search" /\ printed = 1) => output.count = Len(output.images)

\* What the code does for C10: the claim holds for every count c >= 0; a
\* negative count is taken by Python's slice from the end, and the images
\* then come from all but the last -c elements.
HarvestByPythonSlice ==
    /\ (wf = "search" /\ pc = "save") =>
          /\ IsSubseq(results, SourcesOf(img_elements))
          /\ count >= 0 => Len(results) <= count
          /\ (count >= 0 /\ AllAcceptable) => Len(results) = Min(Len(img_elements), count)
          /\ (count < 0 /\ AllAcceptable) => Len(results) = Max(Len(img_elements) + count, 0)
    /\ (wf = "search" /\ printed = 1) =>
          (output.images = results /\ output.count = Len(output.images))

\* two acceptable elements and count 1 have given the first one alone
HarvestFirstOfTwo ==
    /\ wf = "search" /\ pc = "save" /\ count = 1
    /\ Len(img_elements) = 2 /\ AllAcceptable
    /\ img_elements[1].src # img_elements[2].src
    /\ results = << normalized(img_elements[1].src) >>

\* Python's src.startswith('http://') or src.startswith('https://')
HttpPrefix(src) ==
    \/ StartsWith(src, << "h", "t", "t", "p", ":", "/", "/" >>)
    \/ StartsWith(src, << "h", "t", "t", "p", "s", ":", "/", "/" >>)

\* what the rule of C11 emits for the elements read, in order
RECURSIVE EmittedByPrefixRule(_)
EmittedByPrefixRule(elems) ==
    IF elems = << >> THEN << >>
    ELSE LET e == Head(elems) IN
         (IF e.ok /\ StartsWith(e.src, << "/", "/" >>)
             THEN << << "h", "t", "t", "p", "s", ":" >> \o e.src >>
          ELSE IF e.ok /\ HttpPrefix(e.src) THEN << e.src >>
          ELSE << >>)
         \o EmittedByPrefixRule(Tail(elems))

\* C11 as stated: of the image elements read, a source //X is emitted as
\* https://X, a source beginning with http:// or https:// is emitted
\* unchanged, and every other source (empty, relative, another scheme such
\* as ftp://x) is left out of the harvested images.
CexC11_OnlyWebSourcesEmitted ==
    (wf = "search" /\ pc = "save") =>
        results = EmittedByPrefixRule(PySlice(img_elements, count))

\* What the code does for C11: a source is kept when it holds "http" or "//"
\* anywhere, so //X becomes https://X, https://X is kept unchanged, the empty
\* and the relative source are left out, and ftp://x is kept unchanged.
HarvestBySubstringTest ==
    (wf = "search" /\ pc = "save") =>
        \A i \in 1..Len(results) :
            \/ results[i] = << "h", "t", "t", "p", "s", ":" >> \o SrcProtocolRelative
            \/ results[i] = SrcHttps
            \/ results[i] = SrcFtp

\* an ftp source has been harvested
HarvestedFtp ==
    /\ wf = "search" /\ pc = "save"
    /\ \E i \in 1..Len(results) : results[i] = SrcFtp

\* a browser's installation and its profile directory both exist
EdgeComplete(e) == (e.edge86 \/ e.edgeProg) /\ e.edgeData
ChromeComplete(e) == (e.chromeProg \/ e.chrome86 \/ e.chromeLocal) /\ e.chromeData

\* the session was launched against this directory with this channel
LaunchedOn(dir, chan) == session = "open" => (profile = dir /\ channel = chan)

\* the resolution order of C12 on the machine e
EdgeFirst(e) ==
    /\ EdgeComplete(e) => LaunchedOn("edge", "msedge")
    /\ (~EdgeComplete(e) /\ ChromeComplete(e)) => LaunchedOn("chrome", "chrome")
    /\ (~EdgeComplete(e) /\ ~ChromeComplete(e)) => profile = "none"

\* C12 as stated: in the publish, status and search workflows Edge is chosen
\* whenever its installation and its profile directory both exist, Chrome
\* only when Edge's pair is incomplete and Chrome's pair is complete, nothing
\* when neither pair is complete, and the session is launched against the
\* profile directory and the channel of the browser chosen.
CexC12_EdgeFirstInEveryWorkflow ==
    \A e \in env : EdgeFirst(e)

\* What the code does for C12, publish and status: the order of the claim,
\* and no launch at all when nothing resolves.
ResolutionInPublish ==
    (wf \in {"publish", "status"}) =>
        \A e \in env :
            /\ EdgeFirst(e)
            /\ (~EdgeComplete(e) /\ ~ChromeComplete(e)) =>
                  (session = "none" /\ pc = "exit" /\ message = "no browser found")

\* What the code does for C12, search: Chrome's profile directory when it
\* exists, else Edge's, whatever is installed, and never a channel.
ResolutionInSearch ==
    (wf = "search") =>
        \A e \in env :
            /\ channel = ""
            /\ session = "open" =>
                  profile = IF e.chromeData THEN "chrome"
                            ELSE IF e.edgeData THEN "edge" ELSE "none"

\* with Edge and Chrome both complete, search has launched on Chrome's
\* profile directory without a channel
SearchTookChromeProfile ==
    /\ wf = "search" /\ session = "open" /\ profile = "chrome" /\ channel = ""
    /\ \E e \in env : EdgeComplete(e) /\ ChromeComplete(e)

\* no step of a workflow body has been taken
NoWorkflowStep ==
    /\ gotos = 0 /\ polls = 0 /\ sleeps = 0 /\ ~loginDetected /\ waitDone = "none"
    /\ ~tabClicked /\ titleSel = 0 /\ bodySel = 0 /\ submitClicks = 0
    /\ scrolls = 0 /\ results = << >> /\ titles = << >> /\ files = {}
    /\ result = NoResult /\ printed = 0

SearchFoundDirectoryHeld ==
    /\ wf = "search" /\ held /\ pc = "exit" /\ exitCode = 1
    /\ session = "none" /\ exc = "launch"

\* the directory the workflow's own lookup resolves on the machine e
ResolvedDir(e) ==
    IF wf = "search" THEN get_default_chrome_user_data_dir(e)
    ELSE get_system_browser(e).user_data_dir

\* the invocation was given up before its first step and fails
Aborted ==
    /\ session = "none" /\ closes = 0 /\ NoWorkflowStep
    /\ pc \in {"main", "exit"}
    /\ pc = "exit" => exitCode = 1

\* the launch error's message speaks of a directory in use or locked
LockIndicated == launch_msg \cap {"already in use", "winerror 32", "lock"} # {}

\* the operator was told which of the two launch failures happened
FailureClassified ==
    message = IF LockIndicated THEN "close all browser windows"
              ELSE "browser launch failed"

\* C14 as stated: in every workflow, when no browser resolves or the launch
\* fails the invocation is given up at once (no login check, page,
\* navigation or login wait) with a failure status, and a launch failure is
\* reported as the profile-locked error when its message indicates a lock
\* and as the generic launch failure otherwise.
CexC14_EveryWorkflowAbortsAndClassifies ==
    /\ \A e \in env : ResolvedDir(e) = "none" => Aborted
    /\ launch_msg # {} => (Aborted /\ FailureClassified)

\* C14 amended: publish and status are given up at once with status 1 when
\* no browser resolves (with the no-browser message) or the launch fails
\* (with the close-windows message for a lock message, the launch-failed
\* message otherwise).  Search is given up at once with a failure status
\* when the launch fails, by the launch error itself and with no message of
\* its own; when no directory resolves it is not given up.
ThmC14_AcquisitionFailure ==
    /\ (wf \in {"publish", "status"}) =>
          /\ \A e \in env : ResolvedDir(e) = "none" =>
                (Aborted /\ pc = "exit" /\ message = "no browser found")
          /\ launch_msg # {} => (Aborted /\ pc = "exit" /\ FailureClassified)
    /\ (wf = "search") =>
          /\ launch_msg # {} => (Aborted /\ exc = "launch" /\ message = "")
          /\ \A e \in env : (ResolvedDir(e) = "none" /\ launch_msg = {}) =>
                (session = "open" /\ profile = "none" /\ pc = "s_open")

\* C14: a status run whose launch failed on "winerror 32" has printed the
\* close-windows message and ended with status 1.
WitC14_StatusLaunchLocked ==
    /\ wf = "status" /\ launch_msg = {"winerror 32"}
    /\ pc = "exit" /\ exitCode = 1 /\ session = "none" /\ NoWorkflowStep
    /\ message = "close all browser windows"

\* a search run whose launch failed on a lock message has ended in the
\* launch error, with no message of its own
SearchLaunchFailedUnclassified ==
    /\ wf = "search" /\ LockIndicated /\ pc = "exit" /\ exitCode = 1
    /\ exc = "launch" /\ message = ""

\* a search run has left the save step (lines 190-214) with no write failing
LeftSaveStep ==
    /\ wf = "search" /\ pc \in {"finally", "main", "exit"}
    /\ scrolls = ScrollCycles /\ exc \notin {"query_selector_all", "write"}

\* C15 as stated: with a save directory the links file is always written and
\* the titles file exactly when a title was found, and in both cases the
\* workflow then returns the harvested result; without a save directory no
\* file is written.
CexC15_SaveThenReturn ==
    /\ LeftSaveStep =>
          /\ save_dir => ("links" \in files /\ ("titles" \in files <=> titles # << >>))
          /\ result = [status |-> "harvested"] /\ exc = "none"
    /\ ~save_dir => files = {}

\* What the code does for C15: the files are written as the claim says, and
\* the workflow returns except with a save directory and no title, where it
\* ends in UnboundLocalError after the links file is written.
SaveUnlessNoTitles ==
    /\ LeftSaveStep =>
          /\ save_dir => ("links" \in files /\ ("titles" \in files <=> titles # << >>))
          /\ IF save_dir /\ titles = << >>
             THEN result = NoResult /\ exc = "UnboundLocalError"
             ELSE result = [status |-> "harvested"] /\ exc = "none"
    /\ ~save_dir => files = {}

\* a run with a save directory and a title has written both files and returned
SavedBothFiles ==
    /\ LeftSaveStep /\ save_dir /\ titles # << >>
    /\ files = {"links", "titles"} /\ result = [status |-> "harvested"]

\* the publish run has come to the submit-control step (lines 179-208)
ReachedSubmitStep ==
    \/ pc \in {"find_submit", "click_submit", "indicator"}
    \/ result # NoResult
    \/ exc = "click"

\* C16: in the publish workflow a tab, title field or body field that is not
\* located is absorbed: whichever of the three were located, a run that has
\* loaded the publish page comes to the submit-control step unless a located
\* field fails while it is filled, and the tag it returns is ready when no
\* submit control was located, published when the indicator was seen and
\* ready_to_confirm when it was not, whatever was located before.
ThmC16_FieldLookupsAbsorbed ==
    (wf = "publish" /\ gotos = 1) =>
        /\ exc = "fill" => titleSel > 0
        /\ exc = "type" => bodySel > 0
        /\ (pc \notin {"tab", "title", "body"} /\ exc \notin {"fill", "type"})
              => ReachedSubmitStep
        /\ result # NoResult =>
              result.status = IF buttons = 0 THEN "ready"
                              ELSE IF indicator = "seen" THEN "published"
                              ELSE "ready_to_confirm"

\* C16: a run that located neither the tab nor the title field nor the body
\* field has clicked the submit control and returned published.
WitC16_NothingLocatedPublished ==
    /\ wf = "publish" /\ pc = "exit" /\ gotos = 1
    /\ ~tabClicked /\ titleSel = 0 /\ titleTried = Len(title_selectors)
    /\ bodySel = 0 /\ bodyTried = Len(content_selectors)
    /\ submitClicks = 1 /\ result = [status |-> "published", title |-> title]

\* one cascade: the waits would end as outs, candidate sel was taken (0:
\* none) after tried waits
FirstResolvedTaken(outs, sel, tried) ==
    /\ sel \in 0..Len(outs)
    /\ sel > 0 => /\ outs[sel] = "hit"
                  /\ \A j \in 1..(sel - 1) : outs[j] # "hit"
                  /\ tried = sel
    /\ sel = 0 <=> (\A j \in 1..Len(outs) : outs[j] # "hit")
    /\ sel = 0 => tried = Len(outs)

\* C17: the title cascade and the body cascade wait for their candidates in
\* list order and take the first one that resolves, without waiting for a
\* later one; they take none, and raise nothing, exactly when no candidate
\* resolves, and the workflow then goes on to its next step.
ThmC17_CascadeFirstMatch ==
    /\ titleOuts # << >> =>
          /\ Len(titleOuts) = Len(title_selectors)
          /\ FirstResolvedTaken(titleOuts, titleSel, titleTried)
          /\ (titleSel = 0 /\ bodyOuts = << >>) => (pc = "body" /\ exc = "none")
    /\ bodyOuts # << >> =>
          /\ Len(bodyOuts) = Len(content_selectors)
          /\ FirstResolvedTaken(bodyOuts, bodySel, bodyTried)
          /\ (bodySel = 0 /\ buttons = 0 /\ result = NoResult) =>
                (pc = "find_submit" /\ exc = "none")

\* C17: the third title candidate was taken after three waits although the
\* fourth would have resolved as well.
WitC17_ThirdOfFourTaken ==
    /\ titleOuts = << "timeout", "timeout", "hit", "hit" >>
    /\ titleSel = 3 /\ titleTried = 3 /\ pc = "body"

\* C18: in the publish workflow the control taken as the submit control, and
\* the only one ever clicked, is the last of the controls that match the
\* publish label; when the wait for a publish control fails, the query
\* fails or it returns no control, no control is taken, nothing is clicked
\* and the workflow returns ready.
ThmC18_LastMatchClicked ==
    (wf = "publish") =>
        /\ (submitLookup = "ok" /\ buttons >= 1) => submitIdx = buttons
        /\ submitClicks >= 1 =>
              (submitClicks = 1 /\ submitLookup = "ok" /\ buttons >= 1
                 /\ submitIdx = buttons)
        /\ (submitLookup \in {"wait_failed", "query_failed"}
              \/ (submitLookup = "ok" /\ buttons = 0)) =>
              /\ submitIdx = 0 /\ submitClicks = 0 /\ indicator = "none"
              /\ pc \in {"finally", "main", "exit"}
              /\ result = [status |-> "ready", title |-> title]

\* C18: two controls matched and the second one was clicked.
WitC18_SecondOfTwoClicked ==
    /\ wf = "publish" /\ submitLookup = "ok" /\ buttons = 2
    /\ submitIdx = 2 /\ submitClicks = 1

\* the wait succeeded, the query gave no control, and ready was returned
ReadyAfterEmptyQuery ==
    /\ wf = "publish" /\ submitLookup = "ok" /\ buttons = 0 /\ pc = "exit"
    /\ submitClicks = 0 /\ result = [status |-> "ready", title |-> title]

\* C19: in the search workflow, after a negative first login check and a
\* login wait that succeeded the search url is loaded a second time before
\* the first scroll; after a positive first login check the search url is
\* loaded exactly once and the login waiter is never entered.
ThmC19_RenavigateAfterLogin ==
    (wf = "search") =>
        /\ gotos <= 2
        /\ waitDone = "ok" =>
              /\ pc = "s_regoto" => (gotos = 1 /\ scrolls = 0)
              /\ (pc # "s_regoto" /\ exc # "goto") => gotos = 2
              /\ scrolls > 0 => gotos = 2
        /\ (loginDetected /\ waitDone = "none") =>
              /\ gotos = 1 /\ polls = 0 /\ sleeps = 0
              /\ pc \notin {"s_wait", "s_wait_sleep", "s_regoto"}

\* C19: a run that logged in through the waiter has loaded the search url
\* twice and made its first scroll.
WitC19_SecondLoadBeforeScroll ==
    /\ wf = "search" /\ waitDone = "ok" /\ gotos = 2
    /\ pc = "scroll" /\ scrolls = 1

\* a run whose first login check was positive is scrolling after one load
ScrollingAfterOneLoad ==
    /\ wf = "search" /\ loginDetected /\ waitDone = "none" /\ gotos = 1
    /\ pc = "scroll" /\ scrolls = 1

\* the search run has queried the page for elements (lines 155-183)
ReachedExtraction ==
    \/ pc = "save"
    \/ exc \in {"query_selector_all", "write", "UnboundLocalError"}
    \/ result # NoResult

\* C20: a search run that comes to the extraction has made exactly 5 scroll
\* cycles, whatever the page held; every scroll cycle comes after a positive
\* login detection and before the image and title elements are queried.
ThmC20_FiveScrollsBeforeExtraction ==
    (wf = "search") =>
        /\ scrolls \in 0..ScrollCycles
        /\ ReachedExtraction => scrolls = ScrollCycles
        /\ scrolls > 0 => (loginDetected /\ waitDone # "timeout")
        /\ scrolls < ScrollCycles =>
              (img_elements = << >> /\ title_elements = << >>
                 /\ results = << >> /\ titles = << >> /\ files = {})

\* C20: two image elements were found after the 5th scroll cycle.
WitC20_ExtractedAfterFive ==
    /\ wf = "search" /\ pc = "save" /\ scrolls = ScrollCycles
    /\ Len(img_elements) = MaxImgs /\ loginDetected

\* the session is a browser launched without a user data directory
Ephemeral == session # "none" /\ profile = "none"

\* C21: the search workflow is never given up for lack of a profile
\* directory: when none resolves it launches a session without one and goes
\* through the same steps (load the search url, login check, 5 scrolls,
\* extraction); the publish and status workflows in that situation end with
\* status 1 and launch no session, and their sessions always have a profile
\* directory.
ThmC21_EphemeralFallback ==
    /\ (wf = "search") =>
          /\ message = ""
          /\ \A e \in env : get_default_chrome_user_data_dir(e) = "none" =>
                \/ session = "open" /\ Ephemeral /\ channel = "" /\ pc = "s_open"
                \/ launch_msg # {} /\ exc = "launch"
          /\ (Ephemeral /\ pc \in {"scroll", "save"}) =>
                (gotos >= 1 /\ loginDetected)
          /\ (Ephemeral /\ pc = "save") => scrolls = ScrollCycles
    /\ (wf \in {"publish", "status"}) =>
          /\ ~Ephemeral
          /\ \A e \in env : get_system_browser(e).user_data_dir = "none" =>
                /\ session = "none" /\ launch_msg = {} /\ closes = 0
                /\ pc = "exit" /\ exitCode = 1 /\ NoWorkflowStep

\* C21: a search run without a profile directory has logged in through the
\* waiter, scrolled 5 times and extracted an image.
WitC21_EphemeralRunExtracted ==
    /\ wf = "search" /\ Ephemeral /\ session = "open" /\ pc = "save"
    /\ waitDone = "ok" /\ gotos = 2 /\ scrolls = ScrollCycles
    /\ Len(results) >= 1

\* a publish run without a browser has ended at once, with no session
PublishWithoutBrowserEnded ==
    /\ wf = "publish" /\ pc = "exit" /\ exitCode = 1 /\ session = "none"
    /\ message = "no browser found"
    /\ \E e \in env : get_system_browser(e).user_data_dir = "none"

\* the workflow is over: its finally clause, main's print, or the exit
Ending == pc \in {"finally", "main", "exit"}

\* what holds in every state of a run in which nothing is retried
NothingRetriedSoFar ==
    /\ closes <= 1 /\ submitClicks <= 1
    /\ waitDone # "none" => ~InWaiter
    /\ (waitDone = "timeout" \/ result # NoResult) => Ending
    /\ (wf = "publish" /\ result # NoResult
          /\ result.status \in {"ready", "ready_to_confirm"}) =>
          submitClicks = IF result.status = "ready" THEN 0 ELSE 1

\* what holds of every step of such a run
NoStepRepeats ==
    /\ session' # session =>
          \/ pc = "launch" /\ session = "none" /\ session' = "open"
          \/ pc = "finally" /\ session = "open" /\ session' = "closed"
    /\ pc # "launch" => pc' # "launch"
    /\ (InWaiter' /\ ~InWaiter) =>
          (pc \in {"login_check", "s_login_check"} /\ waitDone = "none")
    /\ (pc' \in {"login_check", "s_open"} /\ pc' # pc) => pc = "launch"
    /\ submitClicks' # submitClicks =>
          (submitClicks = 0 /\ submitClicks' = 1 /\ pc = "click_submit")
    /\ Ending => (Ending' /\ submitClicks' = submitClicks /\ gotos' = gotos
                    /\ waitDone' = waitDone /\ result' = result)

\* C22: nothing is retried within one invocation of publish, status or
\* search: the session is acquired at most once (at the launch), the login
\* waiter is entered at most once (from the first login check), the submit
\* control is clicked at most once, and after a login timeout or a returned
\* outcome (ready and ready_to_confirm among them) the workflow only ends.
ThmC22_NothingRetried ==
    [](NothingRetriedSoFar) /\ [][NoStepRepeats]_vars

\* C22: a publish run that waited for the login once and found no submit
\* control has ended with ready, no click, and its session closed once.
WitC22_ReadyEndedWithoutRetry ==
    /\ wf = "publish" /\ pc = "exit" /\ waitDone = "ok" /\ closes = 1
    /\ submitClicks = 0 /\ result = [status |-> "ready", title |-> title]

\* the loops of the workflows stay within their limits
LoopsBounded ==
    /\ wf # "search" => polls <= PublishMaxPolls
    /\ (wf = "search" /\ polls > 0) => cycleStart < SearchMaxWait
    /\ (wf = "search" /\ pc = "s_wait_sleep") => elapsed < SearchMaxWait
                              + Len(selectors) * SelectorTimeoutSecs
    /\ scrolls <= ScrollCycles
    /\ titleTried <= Len(title_selectors) /\ bodyTried <= Len(content_selectors)

\* the process is over and no session is left open
Terminated == pc = "exit" /\ session # "open" /\ exitCode \in {0, 1}

====
